---- MODULE Spec2Model ----
(***************************************************************************)
(* The session orchestrator of the tailoring pipeline: one TailoringSession *)
(* row, the Celery task process_tailoring_session (tailoring/tasks.py) run  *)
(* from the queue, directly in a background thread, or eagerly through      *)
(* apply(), and the request paths of tailoring/frontend_views.py that read  *)
(* the row, dispatch the task and rescue stale sessions.                    *)
(*                                                                         *)
(* Time is kept as ages: since_created = now - created_at and               *)
(* since_updated = now - updated_at, saturated one tick above the larger    *)
(* timeout (the code only ever compares them with the timeouts).  The code  *)
(* reads created_at only of a PENDING session and updated_at only of a      *)
(* PROCESSING one, and every move to PROCESSING restamps updated_at, so the *)
(* row keeps since_created while it is PENDING and since_updated while it   *)
(* is PROCESSING, and holds the age nothing can read at 0.  A view holds    *)
(* its own copy of the row, whose age keeps growing until rescue has        *)
(* compared it, because rescue compares timezone.now() with the timestamps  *)
(* the view read.                                                           *)
(***************************************************************************)
EXTENDS Integers, FiniteSets, Sequences, TLC

\* ---------------------------------------------------------------- bounds
NumTasks == 2
NumViews == 1
PendingTimeout == 1
ProcessingTimeout == 1
MaxText == 5
MaxSectionText == 2
MaxSections == 2

\* ------------------------------------------------------ program constants
max_retries == 3

Tasks == 1..NumTasks
Views == 1..NumViews
VARIABLES row, lock, tasks, views, usage, marked, pending_passes, run

vars == <<row, lock, tasks, views, usage, marked, pending_passes, run>>

\* ----------------------------------------------------------------- values
Status == {"PENDING", "PROCESSING", "COMPLETED", "FAILED"}

\* The text of the PipelineError a run can raise.
MsgConfig == "OPENAI_API_KEY is not configured."
MsgNoInput == "No job description or URL provided. Unable to tailor resume content."
MsgRequired == "Job description content is required."
MsgProvider == "OpenAI request failed: ..."
MsgLLM == "Received empty response from OpenAI, or failed to parse OpenAI JSON payload."
PipelineErrorTexts == {MsgConfig, MsgNoInput, MsgRequired, MsgProvider, MsgLLM}
\* The messages of the other failure writes.
MsgUnexpected == "Unexpected error: ..."
MsgTimeout == "Session exceeded the processing time limit. Please try again."
MsgQueueDown == "Tailoring session could not run because the queue is unavailable."
MsgStartError == "Unexpected error when starting tailoring session."

\* The debug log is kept as the set of the parts it holds.
Trail == {"trail"}
Jobs == [raw_description : {"", "text"}, source_url : {"", "url"}]

\* One dispatch of the task: where it stands (pc), how it is run (mode: from the
\* queue, called directly, or through apply), self.request.retries, how many
\* times the task function was entered, and for the execution under way the
\* status read under the lock (seen), whether the provider was called, and the
\* text of the TailoringPipelineError raised.
IdleTask ==
  [pc |-> "idle", mode |-> "none", retries |-> 0, executions |-> 0, raised |-> "",
   called |-> FALSE, caller |-> 0, outcome |-> "none", seen |-> "none"]

\* The end of an execution: what belongs to the execution alone is dropped.
Ended(tk, outcome) ==
  [tk EXCEPT !.pc = "done", !.outcome = outcome, !.raised = "", !.called = FALSE,
             !.seen = "none", !.retries = 0, !.executions = 0]

NoSession == [status |-> "none", debug_log |-> {}, since_created |-> 0, since_updated |-> 0]

\* A request in a view: the session object it read, what delay() did in the
\* background thread it started (thread) and in _dispatch_tailoring_task
\* (enqueue), what the dispatch returned (result) and what rescue returned.
IdleView ==
  [pc |-> "idle", session |-> NoSession, mutated |-> FALSE,
   result |-> "none", raised |-> FALSE, branch |-> "none",
   thread |-> "none", enqueue |-> "none"]

\* One run of an operation taken alone (the pipeline body, a creating request, a
\* call of a function of the service): its inputs and what it came to.
NoOut == [end |-> "none", raised |-> "", called |-> FALSE, merged |-> ""]
Init ==
  LET NoRun == [inputs |-> "none", out |-> NoOut]
  IN
  /\ row = [status |-> "PENDING", error_message |-> "", completed_at |-> "None",
            debug_log |-> {}, since_created |-> 0, since_updated |-> 0]
  /\ lock = {}
  /\ tasks = [t \in Tasks |-> IdleTask]
  /\ views = [v \in Views |-> IdleView]
  /\ usage = 0
  /\ marked = FALSE
  /\ pending_passes = 0
  /\ run = NoRun

\* ---------------------------------------------------------------- helpers
IdleTasks == {t \in Tasks : tasks[t].pc = "idle"}
NextTask == CHOOSE t \in IdleTasks : \A u \in IdleTasks : t <= u

Older(age) ==
  LET AgeCap == (IF PendingTimeout > ProcessingTimeout THEN PendingTimeout ELSE ProcessingTimeout) + 1
  IN IF age < AgeCap THEN age + 1 ELSE age

\* save(update_fields=[..., "updated_at"]): auto_now restamps updated_at.
Saved(r) ==
  [r EXCEPT !.since_updated = 0,
            !.since_created = IF r.status = "PENDING" THEN @ ELSE 0]

\* ------------------------------------------------------------------ clock
Tick ==
  LET aged == [row EXCEPT
                 !.since_created = IF row.status = "PENDING" THEN Older(@) ELSE @,
                 !.since_updated = IF row.status = "PROCESSING" THEN Older(@) ELSE @]
      seen == [v \in Views |->
                 IF views[v].pc # "loaded" THEN views[v]
                 ELSE [views[v] EXCEPT
                         !.session.since_created =
                            IF views[v].session.status = "PENDING" THEN Older(@) ELSE @,
                         !.session.since_updated =
                            IF views[v].session.status # "PENDING" THEN Older(@) ELSE @]]
  IN
  /\ aged # row \/ seen # views
  /\ row' = aged
  /\ views' = seen
  /\ UNCHANGED <<lock, tasks, usage, marked, pending_passes, run>>

\* ------------------------------------------------- process_tailoring_session
\* The row read and written with no select_for_update().
RowFree_unlocked == TRUE

\* select_for_update() waits until no other transaction holds the row, and so
\* does every UPDATE of the row.
RowFree == lock = {}

\* A worker (or the direct or eager caller) enters the task function:
\* transaction.atomic(), select_for_update().get() locks the row and reads it.
task_lock(t) ==
  /\ tasks[t].pc \in {"queued", "start"}
  /\ RowFree
  /\ lock' = lock \cup {t}
  /\ tasks' = [tasks EXCEPT ![t] =
                 [@ EXCEPT !.pc = "locked", !.seen = row.status, !.executions = @ + 1]]
  /\ UNCHANGED <<row, views, usage, marked, pending_passes, run>>

\* The statuses on which the entry point logs and returns.
Skips(status) == status \in {"PROCESSING", "COMPLETED"}

\* The check and the move to PROCESSING in a transaction that stays open over
\* the pipeline body: the row is still locked when the body starts.
task_check_and_set_holding(t) ==
  /\ tasks[t].pc = "locked"
  /\ t \in lock
  /\ IF Skips(tasks[t].seen)
     THEN /\ tasks' = [tasks EXCEPT ![t] = Ended(@, "returned")]
          /\ lock' = lock \ {t}
          /\ UNCHANGED <<row, pending_passes>>
     ELSE /\ row' = Saved([row EXCEPT !.status = "PROCESSING", !.error_message = "",
                                      !.completed_at = "None"])
          /\ tasks' = [tasks EXCEPT ![t] =
                         [@ EXCEPT !.pc = "body", !.seen = "none"]]
          /\ lock' = lock
          /\ pending_passes' = IF tasks[t].seen = "PENDING" THEN pending_passes + 1
                               ELSE pending_passes
  /\ UNCHANGED <<views, usage, marked, run>>

\* The status check, the move to PROCESSING, and the commit that frees the row.
task_check_and_set(t) ==
  /\ tasks[t].pc = "locked"
  /\ t \in lock
  /\ lock' = lock \ {t}
  /\ IF Skips(tasks[t].seen)
     THEN /\ tasks' = [tasks EXCEPT ![t] = Ended(@, "returned")]
          /\ UNCHANGED <<row, pending_passes>>
     ELSE /\ row' = Saved([row EXCEPT !.status = "PROCESSING", !.error_message = "",
                                      !.completed_at = "None"])
          /\ tasks' = [tasks EXCEPT ![t] =
                         [@ EXCEPT !.pc = "body", !.seen = "none"]]
          /\ pending_passes' = IF tasks[t].seen = "PENDING" THEN pending_passes + 1
                               ELSE pending_passes
  /\ UNCHANGED <<views, usage, marked, run>>

\* service.combine_job_content(raw_description, scraped_text)
combine_job_content(raw, scraped) ==
  IF raw = "" THEN scraped ELSE IF scraped = "" THEN raw ELSE "text"

\* The input check failing as soon as either the description or the URL is missing.
InputError_either(merged, source_url) ==
  IF merged = "" \/ source_url = "" THEN MsgNoInput ELSE ""

\* The input check of the pipeline body: the PipelineError text, or "" to go on.
InputError(merged, source_url) ==
  IF merged = "" /\ source_url = "" THEN MsgNoInput ELSE ""

\* service.run_workflow(...): its own input check, then the provider call, whose
\* outcome is a result, a failure of the call itself (wrapped in a
\* TailoringPipelineError), a TailoringPipelineError for an unusable payload, or
\* another exception.
run_workflow(job_description, source_url, llm) ==
  IF job_description = "" /\ source_url = "" THEN "required" ELSE llm

\* What one run of the pipeline body comes to, given whether the service is
\* configured, the job's description and source URL (or the snapshot's), what
\* the scrape gives (text, or an exception that is logged) and what the provider
\* does: end is one of "result", "pipeline_error" and "exception", raised is
\* the text of the TailoringPipelineError, called tells whether the provider was
\* called, merged is the merged description.
Pipeline(configured, job, scraped, llm) ==
  LET scraped_text == IF job.source_url # "" /\ scraped # "raise" THEN scraped ELSE ""
      merged == combine_job_content(job.raw_description, scraped_text)
      err == InputError(merged, job.source_url)
      out == run_workflow(merged, job.source_url, llm)
      base == [end |-> "pipeline_error", raised |-> "", called |-> FALSE, merged |-> merged]
  IN
  IF ~configured THEN [base EXCEPT !.raised = MsgConfig]
  ELSE IF err # "" THEN [base EXCEPT !.raised = err]
  ELSE IF out = "required" THEN [base EXCEPT !.raised = MsgRequired]
  ELSE IF out = "provider_error" THEN [base EXCEPT !.raised = MsgProvider, !.called = TRUE]
  ELSE IF out = "pipeline_error" THEN [base EXCEPT !.raised = MsgLLM, !.called = TRUE]
  ELSE [base EXCEPT !.end = out, !.called = TRUE]

PipelineInputs ==
  [configured : BOOLEAN, job : Jobs, scraped : {"raise", "", "text"},
   llm : {"result", "provider_error", "pipeline_error", "exception"}]

PipelineOf(i) == Pipeline(i.configured, i.job, i.scraped, i.llm)

\* The pipeline body, outside the lock: the scrape, the merge, the input check,
\* the provider call and, on a result, the save that completes the session.
task_pipeline(t) ==
  /\ tasks[t].pc = "body"
  /\ \E p \in {[end |-> PipelineOf(i).end, raised |-> PipelineOf(i).raised,
                called |-> PipelineOf(i).called] : i \in PipelineInputs} :
       LET tk == [tasks[t] EXCEPT !.called = p.called, !.raised = p.raised] IN
       CASE p.end = "result" ->
              /\ RowFree
              /\ row' = Saved([row EXCEPT !.status = "COMPLETED", !.completed_at = "set",
                                          !.debug_log = Trail])
              /\ tasks' = [tasks EXCEPT ![t] = [tk EXCEPT !.pc = "saved"]]
         [] p.end = "exception" ->
              /\ row' = row
              /\ tasks' = [tasks EXCEPT ![t] = [tk EXCEPT !.pc = "uerr"]]
         [] OTHER ->
              /\ row' = row
              /\ tasks' = [tasks EXCEPT ![t] = [tk EXCEPT !.pc = "perr"]]
  /\ UNCHANGED <<lock, views, usage, marked, pending_passes, run>>

\* user.record_usage(tokens, words), after the completing save.
task_record_usage(t) ==
  /\ tasks[t].pc = "saved"
  /\ usage' = usage + 1
  /\ tasks' = [tasks EXCEPT ![t] = Ended(@, "returned")]
  /\ UNCHANGED <<row, lock, views, marked, pending_passes, run>>

\* The retry test letting one more retry through.
ShouldRetry_inclusive(tk) == tk.retries <= max_retries

\* self.request.retries < self.max_retries
ShouldRetry(tk) == tk.retries < max_retries

\* self.retry(exc=exc): from the queue the task is sent again with retries + 1;
\* called directly, or eagerly through apply(throw=True), it raises to the caller.
retry(tk) ==
  IF tk.mode = "queue"
  THEN [tk EXCEPT !.pc = "queued", !.retries = @ + 1, !.called = FALSE]
  ELSE Ended(tk, "raised")

\* A TailoringPipelineError handled like any other exception: retried.
task_on_pipeline_error_retrying(t) ==
  /\ tasks[t].pc = "perr"
  /\ RowFree
  /\ row' = Saved([row EXCEPT !.debug_log = Trail])
  /\ tasks' = [tasks EXCEPT ![t] = retry(@)]
  /\ UNCHANGED <<lock, views, usage, marked, pending_passes, run>>

\* The usage recorded in a finally clause: also for a run that failed.
task_on_pipeline_error_recording(t) ==
  /\ tasks[t].pc = "perr"
  /\ RowFree
  /\ row' = Saved([row EXCEPT !.status = "FAILED", !.error_message = tasks[t].raised,
                              !.debug_log = Trail])
  /\ tasks' = [tasks EXCEPT ![t] = Ended(@, "returned")]
  /\ usage' = usage + 1
  /\ UNCHANGED <<lock, views, marked, pending_passes, run>>

\* except TailoringPipelineError: lock the row, write FAILED, return.
task_on_pipeline_error(t) ==
  /\ tasks[t].pc = "perr"
  /\ RowFree
  /\ row' = Saved([row EXCEPT !.status = "FAILED", !.error_message = tasks[t].raised,
                              !.debug_log = Trail])
  /\ tasks' = [tasks EXCEPT ![t] = Ended(@, "returned")]
  /\ UNCHANGED <<lock, views, usage, marked, pending_passes, run>>

\* except Exception: save the debug trail and retry, or write FAILED at the bound.
task_on_unexpected_error(t) ==
  LET TrailAndTrace == {"trail", "trace"}
  IN
  /\ tasks[t].pc = "uerr"
  /\ RowFree
  /\ IF ShouldRetry(tasks[t])
     THEN /\ row' = Saved([row EXCEPT !.debug_log = Trail])
          /\ tasks' = [tasks EXCEPT ![t] = retry(@)]
     ELSE /\ row' = Saved([row EXCEPT !.status = "FAILED",
                                      !.error_message = MsgUnexpected,
                                      !.debug_log = TrailAndTrace])
          /\ tasks' = [tasks EXCEPT ![t] = Ended(@, "returned")]
  /\ UNCHANGED <<lock, views, usage, marked, pending_passes, run>>

\* ------------------------------------------------------------ request paths
\* What process_tailoring_session.delay() can do: send the message, fail with a
\* broker or connection error, or fail with another exception.
QueueOutcomes == {"sent", "unavailable", "error"}

\* The inline fallback taken on any failure of delay().
FallsBackInline_any(q) == q # "sent"

\* except (KombuOperationalError, CeleryOperationalError, ConnectionError): the
\* task is run in place only when the queue is unavailable.
FallsBackInline(q) == q = "unavailable"

CopyOf(r) ==
  [status |-> r.status, debug_log |-> r.debug_log,
   since_created |-> r.since_created, since_updated |-> r.since_updated]

\* _mark_session_failed(session, message, append_debug=...): the row after the
\* save, which writes the fields of the caller's session object.
mark_session_failed(session, message, append_debug) ==
  Saved([row EXCEPT !.status = "FAILED", !.error_message = message,
                    !.completed_at = "set",
                    !.debug_log = IF append_debug THEN session.debug_log \cup {"note"}
                                  ELSE session.debug_log])

\* _run_task_in_background(session_id), the body of the thread tailoring_detail
\* starts: queue the task, or call it directly when the queue is unavailable;
\* any other exception is logged and nothing runs.
run_task_in_background(tk, q) ==
  CASE q = "sent" -> [tk EXCEPT !.pc = "queued", !.mode = "queue"]
    [] FallsBackInline(q) -> [tk EXCEPT !.pc = "start", !.mode = "direct"]
    [] OTHER -> tk

\* tailoring_detail and tailoring_list read the session; tailoring_detail starts
\* the background thread when the session it read is PENDING.
view_load(v) ==
  /\ views[v].pc = "idle"
  /\ \E kind \in {"detail", "list"}, q \in QueueOutcomes :
       LET spawn == kind = "detail" /\ row.status = "PENDING" IN
       /\ spawn => IdleTasks # {}
       /\ views' = [views EXCEPT ![v] =
                      [IdleView EXCEPT !.pc = "loaded", !.session = CopyOf(row),
                                       !.thread = IF spawn THEN q ELSE "none"]]
       /\ tasks' = IF spawn
                   THEN [tasks EXCEPT ![NextTask] = run_task_in_background(@, q)]
                   ELSE tasks
  /\ UNCHANGED <<row, lock, usage, marked, pending_passes, run>>

\* The pending test taking a session at the threshold for stale.
IsStalePending_inclusive(s) == s.status = "PENDING" /\ s.since_created >= PendingTimeout

\* now - session.created_at > pending_timeout, on a PENDING session
IsStalePending(s) == s.status = "PENDING" /\ s.since_created > PendingTimeout

\* now - session.updated_at > processing_timeout, on a PROCESSING session
IsStaleProcessing(s) == s.status = "PROCESSING" /\ s.since_updated > ProcessingTimeout

\* The dispatch with no try/except around it: its exception reaches the view.
AfterDispatch_unguarded(result) ==
  [mutated |-> result # "raised", raised |-> result = "raised"]

\* The try/except around the dispatch: a return and an exception both end in
\* mutated = True, and nothing is raised again.
AfterDispatch(result) == [mutated |-> TRUE, raised |-> FALSE]

Returned(vw, result, branch) ==
  [vw EXCEPT !.pc = "returned", !.result = result, !.branch = branch,
             !.session = NoSession,
             !.mutated = AfterDispatch(result).mutated,
             !.raised = AfterDispatch(result).raised]

\* _rescue_stuck_session(session) up to its return, or up to the inline run that
\* _dispatch_tailoring_task starts when the queue is unavailable.
rescue_stuck_session(v) ==
  /\ views[v].pc = "loaded"
  /\ LET s == views[v].session IN
     IF IsStalePending(s)
     THEN \E q \in QueueOutcomes :
            CASE q = "sent" ->
                   /\ IdleTasks # {}
                   /\ tasks' = [tasks EXCEPT ![NextTask] =
                                  [@ EXCEPT !.pc = "queued", !.mode = "queue"]]
                   /\ views' = [views EXCEPT ![v] =
                                  Returned([@ EXCEPT !.enqueue = q], "queued", "pending")]
                   /\ UNCHANGED <<row, marked>>
              [] FallsBackInline(q) ->
                   /\ IdleTasks # {}
                   /\ tasks' = [tasks EXCEPT ![NextTask] =
                                  [@ EXCEPT !.pc = "start", !.mode = "apply", !.caller = v]]
                   /\ views' = [views EXCEPT ![v] =
                                  [@ EXCEPT !.pc = "inline", !.branch = "pending",
                                            !.enqueue = q,
                                            !.session.since_created = 0]]
                   /\ UNCHANGED <<row, marked>>
              [] OTHER ->
                   /\ RowFree
                   /\ row' = mark_session_failed(s, MsgStartError, TRUE)
                   /\ marked' = TRUE
                   /\ views' = [views EXCEPT ![v] =
                                  Returned([@ EXCEPT !.enqueue = q], "raised", "pending")]
                   /\ tasks' = tasks
     ELSE IF IsStaleProcessing(s)
     THEN /\ RowFree
          /\ row' = mark_session_failed(s, MsgTimeout, FALSE)
          /\ marked' = TRUE
          /\ views' = [views EXCEPT ![v] =
                         [@ EXCEPT !.pc = "returned", !.mutated = TRUE,
                                   !.branch = "processing", !.session = NoSession]]
          /\ tasks' = tasks
     ELSE /\ views' = [views EXCEPT ![v] =
                         [@ EXCEPT !.pc = "returned", !.mutated = FALSE,
                                   !.session = NoSession]]
          /\ UNCHANGED <<row, marked, tasks>>
  /\ UNCHANGED <<lock, usage, pending_passes, run>>

\* _dispatch_tailoring_task after process_tailoring_session.apply(throw=True):
\* "inline" when it returned, _mark_session_failed and the raise when it raised.
dispatch_inline_done(v) ==
  /\ views[v].pc = "inline"
  /\ \E t \in Tasks :
       /\ tasks[t].caller = v
       /\ tasks[t].pc = "done"
       /\ tasks' = [tasks EXCEPT ![t] = [@ EXCEPT !.caller = 0]]
       /\ IF tasks[t].outcome = "raised"
          THEN /\ RowFree
               /\ row' = mark_session_failed(views[v].session, MsgQueueDown, TRUE)
               /\ marked' = TRUE
               /\ views' = [views EXCEPT ![v] = Returned(@, "raised", "pending")]
          ELSE /\ views' = [views EXCEPT ![v] = Returned(@, "inline", "pending")]
               /\ UNCHANGED <<row, marked>>
  /\ UNCHANGED <<lock, usage, pending_passes, run>>

\* The view refreshes the session when rescue returned True, and renders.
view_render(v) ==
  /\ views[v].pc = "returned"
  /\ views' = [views EXCEPT ![v] = IdleView]
  /\ UNCHANGED <<row, lock, tasks, usage, marked, pending_passes, run>>

\* ----------------------------------------------------------- specification
Next ==
  \/ Tick
  \/ \E t \in Tasks : task_lock(t)
  \/ \E t \in Tasks : task_check_and_set(t)
  \/ \E t \in Tasks : task_pipeline(t)
  \/ \E t \in Tasks : task_record_usage(t)
  \/ \E t \in Tasks : task_on_pipeline_error(t)
  \/ \E t \in Tasks : task_on_unexpected_error(t)
  \/ \E v \in Views : view_load(v)
  \/ \E v \in Views : rescue_stuck_session(v)
  \/ \E v \in Views : dispatch_inline_done(v)
  \/ \E v \in Views : view_render(v)

Spec == Init /\ [][Next]_vars

\* The pipeline body alone, on every combination of its inputs.
run_pipeline ==
  /\ run.out = NoOut
  /\ run' = [run EXCEPT !.out = PipelineOf(run.inputs)]
  /\ UNCHANGED <<row, lock, tasks, views, usage, marked, pending_passes>>

InitPipeline ==
  /\ row = [status |-> "PROCESSING", error_message |-> "", completed_at |-> "None",
            debug_log |-> {}, since_created |-> 0, since_updated |-> 0]
  /\ lock = {}
  /\ tasks = [t \in Tasks |-> IdleTask]
  /\ views = [v \in Views |-> IdleView]
  /\ usage = 0
  /\ marked = FALSE
  /\ pending_passes = 0
  /\ run \in [inputs : PipelineInputs, out : {NoOut}]

SpecPipeline == InitPipeline /\ [][run_pipeline]_vars

\* --------------------------------------------------------- session creation
\* The status each path passes to TailoringSession.objects.create().
InitialStatus(path) == IF path = "tailoring_create" THEN "PENDING" ELSE "PROCESSING"

NoRow ==
  [status |-> "none", error_message |-> "", completed_at |-> "None",
   debug_log |-> {}, since_created |-> 0, since_updated |-> 0]

\* The request up to TailoringSession.objects.create(): refused without tokens
\* (and, in the REST actions, without an experience graph), else the session is
\* created.
session_create ==
  /\ run.out.end = "none"
  /\ row.status = "none"
  /\ LET i == run.inputs
         refused == \/ ~i.has_tokens
                    \/ (i.path # "tailoring_create" /\ ~i.has_graph)
     IN
     IF refused
     THEN /\ run' = [run EXCEPT !.out.end = "refused"]
          /\ row' = row
     ELSE /\ run' = [run EXCEPT !.out.end = "created"]
          /\ row' = [row EXCEPT !.status = InitialStatus(i.path)]
  /\ UNCHANGED <<lock, tasks, views, usage, marked, pending_passes>>

\* The REST actions then call the service in the request and save COMPLETED, or
\* FAILED on NotImplementedError and on any other exception.
rest_run_workflow ==
  /\ run.out.end = "created"
  /\ run.inputs.path # "tailoring_create"
  /\ run' = [run EXCEPT !.out.end = run.inputs.service]
  /\ row' = Saved([row EXCEPT !.status = IF run.inputs.service = "result"
                                         THEN "COMPLETED" ELSE "FAILED"])
  /\ UNCHANGED <<lock, tasks, views, usage, marked, pending_passes>>

InitCreate ==
  LET \* What a creating request meets: the user's quota, whether the user has an
      \* experience graph, the job, and what the service does when the REST actions
      \* call it in the request.
      CreateInputs ==
        LET \* The three code paths that create a TailoringSession: the frontend create view
            \* and the REST create and restart actions.
            CreatePaths == {"tailoring_create", "create", "restart"}
        IN
        [path : CreatePaths, has_tokens : BOOLEAN, has_graph : BOOLEAN, job : Jobs,
         service : {"result", "not_implemented", "exception"}]
  IN
  /\ row = NoRow
  /\ lock = {}
  /\ tasks = [t \in Tasks |-> IdleTask]
  /\ views = [v \in Views |-> IdleView]
  /\ usage = 0
  /\ marked = FALSE
  /\ pending_passes = 0
  /\ run \in [inputs : CreateInputs, out : {NoOut}]

NextCreate == session_create \/ rest_run_workflow

SpecCreate == InitCreate /\ [][NextCreate]_vars

\* ---------------------------------------------------------------- snapshots
\* A dict with string keys is a function on the set of its keys.
EmptyDict == [k \in {} |-> ""]

\* d.get(key, "")
Get(d, key) == IF key \in DOMAIN d THEN d[key] ELSE ""

\* a.update(b): the keys of b win.
Update(a, b) ==
  [k \in DOMAIN a \cup DOMAIN b |-> IF k \in DOMAIN b THEN b[k] ELSE a[k]]

\* The dict built from the job: title, company, location_text, source_url and
\* raw_description.
JobDict(title, source_url, raw_description) ==
  [k \in {"title", "company", "location_text", "source_url", "raw_description"} |->
     CASE k = "source_url" -> source_url
       [] k = "raw_description" -> raw_description
       [] k = "title" -> title
       [] OTHER -> k]

\* job.raw_description or existing_job_snapshot.get("raw_description", ""), and
\* the same for source_url.
EffectiveJob(job, existing_job_snapshot) ==
  [raw_description |-> IF job.raw_description # "" THEN job.raw_description
                       ELSE Get(existing_job_snapshot, "raw_description"),
   source_url |-> IF job.source_url # "" THEN job.source_url
                  ELSE Get(existing_job_snapshot, "source_url")]

\* The job_snapshot the body builds: the job's fields, overlaid with the
\* snapshot the session carries, and the scraped excerpt when the scrape gave
\* text.
BuiltJobSnapshot(job, existing_job_snapshot, scraped) ==
  LET eff == EffectiveJob(job, existing_job_snapshot)
      scraped_text == IF eff.source_url # "" /\ scraped # "raise" THEN scraped ELSE ""
      base == Update(JobDict("title", eff.source_url, eff.raw_description),
                     existing_job_snapshot)
  IN
  IF scraped_text # ""
  THEN Update(base, [k \in {"scraped_excerpt"} |-> scraped_text])
  ELSE base

\* session.input_experience_snapshot or the user's graph_json, {} ("") when the
\* user has no ExperienceGraph ("none").
BuiltExperienceSnapshot(carried, graph) ==
  IF carried # "" THEN carried ELSE IF graph = "none" THEN "" ELSE graph

\* One run of the task on a session, for its snapshots: they are stored by the
\* completing save alone.
run_snapshots ==
  /\ run.out.end = "none"
  /\ LET i == run.inputs
         p == Pipeline(i.configured, EffectiveJob(i.job, i.job_snapshot), i.scraped, i.llm)
     IN
     IF p.end = "result"
     THEN run' = [run EXCEPT
                    !.out.end = p.end,
                    !.out.job_snapshot = BuiltJobSnapshot(i.job, i.job_snapshot, i.scraped),
                    !.out.input_experience_snapshot =
                       BuiltExperienceSnapshot(i.input_experience_snapshot, i.graph)]
     ELSE run' = [run EXCEPT !.out.end = p.end]
  /\ UNCHANGED <<row, lock, tasks, views, usage, marked, pending_passes>>

InitSnapshots ==
  LET SnapshotInputs ==
        LET \* The job snapshots a session can carry when a run starts: none, the one the
            \* create view captured from the job, that one with an excerpt of an earlier
            \* run, and one captured before the job was edited.
            CarriedJobSnapshots(job) ==
              {EmptyDict,
               JobDict("title", job.source_url, job.raw_description),
               Update(JobDict("title", job.source_url, job.raw_description),
                      [k \in {"scraped_excerpt"} |-> "old excerpt"]),
               JobDict("old title", "url", "text")}
        IN
        {[configured |-> c, job |-> j, scraped |-> sc, llm |-> l, job_snapshot |-> js,
          input_experience_snapshot |-> es, graph |-> g] :
           c \in BOOLEAN, j \in Jobs, sc \in {"raise", "", "text"},
           l \in {"result", "pipeline_error", "exception"},
           js \in UNION {CarriedJobSnapshots(jj) : jj \in Jobs},
           es \in {"", "snapshot"}, g \in {"none", "", "graph"}}
  IN
  /\ row = [status |-> "PROCESSING", error_message |-> "", completed_at |-> "None",
            debug_log |-> {}, since_created |-> 0, since_updated |-> 0]
  /\ lock = {}
  /\ tasks = [t \in Tasks |-> IdleTask]
  /\ views = [v \in Views |-> IdleView]
  /\ usage = 0
  /\ marked = FALSE
  /\ pending_passes = 0
  /\ run \in {[inputs |-> i,
               out |-> [end |-> "none", job_snapshot |-> i.job_snapshot,
                        input_experience_snapshot |-> i.input_experience_snapshot]] :
                i \in SnapshotInputs}

SpecSnapshots == InitSnapshots /\ [][run_snapshots]_vars

\* ------------------------------------------------ _generate_tailored_content
\* json.loads(text): a dict for an object, another value for a number, or
\* JSONDecodeError ("invalid").
json_loads(text) ==
  IF text = <<"{", "}">> THEN "dict"
  ELSE IF text # <<>> /\ \A k \in 1..Len(text) : text[k] = "1" THEN "number"
  ELSE "invalid"

\* The code fences removed: a leading json fence, then a leading fence, then a
\* trailing fence.
StripFences(text) ==
  LET StartsWith(s, prefix) ==
        /\ Len(s) >= Len(prefix)
        /\ SubSeq(s, 1, Len(prefix)) = prefix
      EndsWith(s, suffix) ==
        /\ Len(s) >= Len(suffix)
        /\ SubSeq(s, Len(s) - Len(suffix) + 1, Len(s)) = suffix
      a == IF StartsWith(text, <<"fence", "j">>) THEN SubSeq(text, 3, Len(text)) ELSE text
      b == IF StartsWith(a, <<"fence">>) THEN SubSeq(a, 2, Len(a)) ELSE a
  IN IF EndsWith(b, <<"fence">>) THEN SubSeq(b, 1, Len(b) - 1) ELSE b

\* raw_payload.find("{") and raw_payload.rfind("}"), 0 when there is none.
Find(text, token) ==
  IF \E k \in 1..Len(text) : text[k] = token
  THEN CHOOSE k \in 1..Len(text) :
         text[k] = token /\ \A m \in 1..(k - 1) : text[m] # token
  ELSE 0

RFind(text, token) ==
  IF \E k \in 1..Len(text) : text[k] = token
  THEN CHOOSE k \in 1..Len(text) :
         text[k] = token /\ \A m \in (k + 1)..Len(text) : text[m] # token
  ELSE 0

\* What the payload comes to once parsed: the result for a dict; payload.get on
\* any other value raises AttributeError.
FromPayload(payload) == IF payload = "dict" THEN "result" ELSE "AttributeError"

\* The second json.loads, on the text from the first "{" to the last "}": it is
\* called in the except clause, so its JSONDecodeError is raised as it is.
ParseSubstring(raw_payload, start, end) ==
  LET payload == json_loads(SubSeq(raw_payload, start, end)) IN
  IF payload = "invalid" THEN "JSONDecodeError" ELSE FromPayload(payload)

\* _generate_tailored_content from the provider call on: how it ends, a result
\* or the kind of the error raised.
generate_tailored_content(call, text) ==
  LET raw_payload == StripFences(text)
      payload == json_loads(raw_payload)
      start == Find(raw_payload, "{")
      end == RFind(raw_payload, "}")
  IN
  IF call = "error" THEN "TailoringPipelineError"
  ELSE IF raw_payload = <<>> THEN "TailoringPipelineError"
  ELSE IF payload # "invalid" THEN FromPayload(payload)
  ELSE IF start # 0 /\ end # 0 THEN ParseSubstring(raw_payload, start, end)
  ELSE "TailoringPipelineError"

run_generate ==
  /\ run.out.end = "none"
  /\ run' = [run EXCEPT !.out.end = generate_tailored_content(run.inputs.call, run.inputs.text)]
  /\ UNCHANGED <<row, lock, tasks, views, usage, marked, pending_passes>>

InitGenerate ==
  LET Texts ==
        LET \* The text of a response, as a sequence of tokens: the braces, a digit, a
            \* letter, and the code fence of three backquotes (the fence opening a json
            \* block is the fence and the letter).
            Tokens == {"{", "}", "1", "j", "fence"}
        IN UNION {[1..n -> Tokens] : n \in 0..MaxText}
  IN
  /\ row = [status |-> "PROCESSING", error_message |-> "", completed_at |-> "None",
            debug_log |-> {}, since_created |-> 0, since_updated |-> 0]
  /\ lock = {}
  /\ tasks = [t \in Tasks |-> IdleTask]
  /\ views = [v \in Views |-> IdleView]
  /\ usage = 0
  /\ marked = FALSE
  /\ pending_passes = 0
  /\ run \in [inputs : [call : {"ok", "error"}, text : Texts], out : {NoOut}]

SpecGenerate == InitGenerate /\ [][run_generate]_vars

\* ------------------------------------------------------ normalize_parameters
\* A Python value is a record of its type t and its content v: the tokens of a
\* str, the number of an int, the hundredths of a finite float, the items of a
\* list. "missing" stands for a key the mapping does not have.
StrV(s) == [t |-> "str", v |-> s]
IntV(n) == [t |-> "int", v |-> n]
FloatV(hundredths) == [t |-> "float", v |-> hundredths]
ListV(items) == [t |-> "list", v |-> items]
InfV == [t |-> "inf", v |-> <<>>]
NaNV == [t |-> "nan", v |-> <<>>]
NoneV == [t |-> "None", v |-> <<>>]
BoolV(b) == [t |-> "bool", v |-> b]
Missing == [t |-> "missing", v |-> <<>>]
Raised(kind) == [t |-> "raised", v |-> kind]

DEFAULT_PARAMETERS ==
  [sections |-> ListV(<<StrV(<<"H">>)>>), bullets_per_section |-> IntV(3),
   tone |-> StrV(<<"c">>), include_summary |-> BoolV(TRUE),
   temperature |-> FloatV(35), max_output_tokens |-> IntV(900)]

Keys == DOMAIN DEFAULT_PARAMETERS

\* int(x): the int, or the exception raised.
py_int(x) ==
  CASE x.t = "int" -> x
    [] x.t = "bool" -> IntV(IF x.v THEN 1 ELSE 0)
    [] x.t = "float" -> IntV(IF x.v >= 0 THEN x.v \div 100 ELSE 0 - ((0 - x.v) \div 100))
    [] x.t = "inf" -> Raised("OverflowError")
    [] x.t = "nan" -> Raised("ValueError")
    [] x.t = "str" -> IF x.v = <<"4">> THEN IntV(4) ELSE Raised("ValueError")
    [] OTHER -> Raised("TypeError")

\* float(x): the float, or the exception raised.
py_float(x) ==
  CASE x.t = "int" -> FloatV(x.v * 100)
    [] x.t = "bool" -> FloatV(IF x.v THEN 100 ELSE 0)
    [] x.t \in {"float", "inf", "nan"} -> x
    [] x.t = "str" -> IF x.v = <<"4">> THEN FloatV(400)
                      ELSE IF x.v = <<"0", ".", "6", "5">> THEN FloatV(65)
                      ELSE Raised("ValueError")
    [] OTHER -> Raised("TypeError")

\* str(x), for the values a sections list or a tone can hold.
py_str(x) ==
  CASE x.t = "str" -> x.v
    [] x.t = "int" -> IF x.v = 7 THEN <<"7">> ELSE <<"4">>
    [] x.t = "None" -> <<"N", "o", "n", "e">>
    [] OTHER -> <<"o", "b", "j">>

\* bool(x)
py_bool(x) ==
  CASE x.t = "bool" -> x.v
    [] x.t = "str" -> x.v # <<>>
    [] x.t = "int" -> x.v # 0
    [] x.t = "None" -> FALSE
    [] OTHER -> TRUE

RECURSIVE LStrip(_)
LStrip(text) ==
  IF text # <<>> /\ Head(text) = " " THEN LStrip(Tail(text)) ELSE text

RECURSIVE RStrip(_)
RStrip(text) ==
  IF text # <<>> /\ text[Len(text)] = " "
  THEN RStrip(SubSeq(text, 1, Len(text) - 1)) ELSE text

\* text.strip()
Strip(text) == RStrip(LStrip(text))

\* re.split(r"[\n,]+", text): the pieces between runs of separators.
RECURSIVE SplitParts(_, _)
SplitParts(text, piece) ==
  IF text = <<>> THEN <<piece>>
  ELSE IF Head(text) = ","
       THEN IF Len(text) > 1 /\ text[2] = ","
            THEN SplitParts(Tail(text), piece)
            ELSE <<piece>> \o SplitParts(Tail(text), <<>>)
       ELSE SplitParts(Tail(text), Append(piece, Head(text)))

\* [f(x).strip() for x in items if f(x).strip()], as a list of str.
RECURSIVE StrippedNonEmpty(_)
StrippedNonEmpty(texts) ==
  IF texts = <<>> THEN <<>>
  ELSE LET first == Strip(Head(texts)) IN
       (IF first # <<>> THEN <<StrV(first)>> ELSE <<>>) \o StrippedNonEmpty(Tail(texts))

\* The pieces of a sections string kept as they are, not stripped.
RECURSIVE NonBlank(_)
NonBlank(texts) ==
  IF texts = <<>> THEN <<>>
  ELSE (IF Strip(Head(texts)) # <<>> THEN <<StrV(Head(texts))>> ELSE <<>>)
         \o NonBlank(Tail(texts))

SplitSections_unstripped(text) == NonBlank(SplitParts(text, <<>>))

\* A sections string: split on newlines and commas, each piece stripped, the
\* empty ones dropped.
SplitSections(text) == StrippedNonEmpty(SplitParts(text, <<>>))

\* The sections of the result.
NormalSections(sections) ==
  LET cleaned ==
        CASE sections.t = "str" -> SplitSections(sections.v)
          [] sections.t = "list" ->
               StrippedNonEmpty([k \in 1..Len(sections.v) |-> py_str(sections.v[k])])
          [] OTHER -> DEFAULT_PARAMETERS.sections.v
  IN ListV(IF cleaned # <<>> THEN cleaned ELSE DEFAULT_PARAMETERS.sections.v)

\* try: convert; except (TypeError, ValueError): the default. Another exception
\* is raised to the caller.
OrDefault(converted, default) ==
  LET \* except (TypeError, ValueError)
      Caught == {"TypeError", "ValueError"}
  IN
  IF converted.t = "raised" /\ converted.v \in Caught THEN default ELSE converted

\* max(1, n)
AtLeastOne(x) == IF x.t = "int" /\ x.v < 1 THEN IntV(1) ELSE x

\* normalize_parameters(parameters): the normalised mapping, or the exception
\* that escapes.
normalize_parameters(parameters) ==
  LET merged == [k \in Keys |-> IF parameters[k] = Missing THEN DEFAULT_PARAMETERS[k]
                                ELSE parameters[k]]
      bullets == OrDefault(AtLeastOne(py_int(merged.bullets_per_section)),
                           DEFAULT_PARAMETERS.bullets_per_section)
      temperature == OrDefault(py_float(merged.temperature), DEFAULT_PARAMETERS.temperature)
      max_output_tokens == OrDefault(py_int(merged.max_output_tokens),
                                     DEFAULT_PARAMETERS.max_output_tokens)
      tone == Strip(py_str(merged.tone))
  IN
  IF bullets.t = "raised" THEN bullets
  ELSE IF temperature.t = "raised" THEN temperature
  ELSE IF max_output_tokens.t = "raised" THEN max_output_tokens
  ELSE [sections |-> NormalSections(merged.sections),
        bullets_per_section |-> bullets,
        temperature |-> temperature,
        max_output_tokens |-> max_output_tokens,
        tone |-> IF tone # <<>> THEN StrV(tone) ELSE DEFAULT_PARAMETERS.tone,
        include_summary |-> BoolV(py_bool(merged.include_summary))]

\* One call of normalize_parameters, and one more on its result when it returned.
run_normalize ==
  /\ run.out.end = "none"
  /\ LET first == normalize_parameters(run.inputs) IN
     run' = [run EXCEPT
               !.out = IF "t" \in DOMAIN first
                       THEN [end |-> "raised", result |-> first, again |-> first]
                       ELSE [end |-> "returned", result |-> first,
                             again |-> normalize_parameters(first)]]
  /\ UNCHANGED <<row, lock, tasks, views, usage, marked, pending_passes>>

InitNormalize ==
  LET ParameterInputs ==
        LET SectionTexts == UNION {[1..n -> {"a", " ", ","}] : n \in 0..MaxSectionText}
            SectionItems == {StrV(<<>>), StrV(<<"a">>), StrV(<<" ">>), StrV(<<" ", "a">>), IntV(7)}
            SectionValues ==
              {Missing, NoneV, IntV(7)}
                \cup {StrV(text) : text \in SectionTexts}
                \cup {ListV(items) : items \in UNION {[1..n -> SectionItems] : n \in 0..MaxSections}}
        IN
        [sections : SectionValues,
         bullets_per_section : {Missing, NoneV, IntV(0 - 1), IntV(0), IntV(4), FloatV(65),
                                FloatV(450), InfV, NaNV, StrV(<<"4">>),
                                StrV(<<"0", ".", "6", "5">>), StrV(<<"a">>), StrV(<<>>),
                                ListV(<<>>)},
         temperature : {Missing, NoneV, IntV(4), FloatV(65), NaNV, StrV(<<"0", ".", "6", "5">>),
                        StrV(<<"a">>), ListV(<<>>)},
         max_output_tokens : {Missing, NoneV, IntV(4), FloatV(450), InfV, StrV(<<"4">>),
                              StrV(<<"a">>)},
         tone : {Missing, NoneV, StrV(<<>>), StrV(<<" ">>), StrV(<<" ", "a">>)},
         include_summary : {Missing, BoolV(FALSE), StrV(<<>>)}]
  IN
  /\ row = [status |-> "PENDING", error_message |-> "", completed_at |-> "None",
            debug_log |-> {}, since_created |-> 0, since_updated |-> 0]
  /\ lock = {}
  /\ tasks = [t \in Tasks |-> IdleTask]
  /\ views = [v \in Views |-> IdleView]
  /\ usage = 0
  /\ marked = FALSE
  /\ pending_passes = 0
  /\ run \in [inputs : ParameterInputs,
              out : {[end |-> "none", result |-> Missing, again |-> Missing]}]

SpecNormalize == InitNormalize /\ [][run_normalize]_vars

\* -------------------------------------------------------- calculate_ats_score
\* Texts are sequences of characters; percentages and the overall score are
\* kept in tenths, the precision of round(x, 1).
MaxBullets == 2
MaxSkills == 2

Lower(text) ==
  LET \* str.lower()
      LowerChar(c) == IF c = "J" THEN "j" ELSE IF c = "L" THEN "l" ELSE c
  IN [i \in 1..Len(text) |-> LowerChar(text[i])]

\* " ".join(bullet_points)
RECURSIVE Join(_)
Join(texts) ==
  IF texts = <<>> THEN <<>>
  ELSE IF Len(texts) = 1 THEN Head(texts)
  ELSE Head(texts) \o <<" ">> \o Join(Tail(texts))

\* needle in text
Contains(needle, text) ==
  \E i \in 0..(Len(text) - Len(needle)) : SubSeq(text, i + 1, i + Len(needle)) = needle

\* The skills found in the resume text, and those not found, in their order.
RECURSIVE Matches(_, _)
Matches(skills, resume_text) ==
  IF skills = <<>> THEN 0
  ELSE (IF Contains(Lower(Head(skills)), resume_text) THEN 1 ELSE 0)
         + Matches(Tail(skills), resume_text)

RECURSIVE MissingOf(_, _)
MissingOf(skills, resume_text) ==
  IF skills = <<>> THEN <<>>
  ELSE (IF Contains(Lower(Head(skills)), resume_text) THEN <<>> ELSE <<Head(skills)>>)
         \o MissingOf(Tail(skills), resume_text)

\* numerator / denominator rounded to the nearest integer.
Rounded(numerator, denominator) == (2 * numerator + denominator) \div (2 * denominator)

\* (matches / len(skills)) * 100, in tenths.
Pct(skills, resume_text) == Rounded(1000 * Matches(skills, resume_text), Len(skills))

\* The required-skills percentage with a baseline of zero when none is given.
required_match_pct_baseline(required_skills, resume_text) ==
  IF required_skills # <<>> THEN Pct(required_skills, resume_text) ELSE 0

\* The required-skills percentage: 100.0 when no required skill is given.
required_match_pct(required_skills, resume_text) ==
  IF required_skills # <<>> THEN Pct(required_skills, resume_text) ELSE 1000

\* missing[:n]
FirstN(items, n) == SubSeq(items, 1, IF Len(items) < n THEN Len(items) ELSE n)

\* calculate_ats_score(bullet_points, job_keywords, required_skills,
\* preferred_skills); an absent optional list is the empty list, as None and []
\* take the same branches.
calculate_ats_score(bullet_points, job_keywords, required_skills, preferred_skills) ==
  IF job_keywords = <<>> /\ required_skills = <<>>
  THEN [overall_score |-> 0, keyword_match |-> 0, required_skills_match |-> 0,
        preferred_skills_match |-> 0, missing_critical |-> <<>>,
        missing_preferred |-> <<>>, suggestions |-> <<"no_requirements">>]
  ELSE
    LET resume_text == Lower(Join(bullet_points))
        keyword_match_pct ==
          IF job_keywords # <<>> THEN Pct(job_keywords, resume_text) ELSE 0
        required_pct == required_match_pct(required_skills, resume_text)
        missing_required == MissingOf(required_skills, resume_text)
        preferred_match_pct ==
          IF preferred_skills # <<>> THEN Pct(preferred_skills, resume_text) ELSE 0
        missing_preferred == MissingOf(preferred_skills, resume_text)
        \* 0.60 * required + 0.30 * keyword + 0.10 * preferred, unrounded: a
        \* fraction of tenths over the common denominator of the three
        d(xs) == IF xs = <<>> THEN 1 ELSE Len(xs)
        exact(xs, pct) == IF xs = <<>> THEN pct ELSE 1000 * Matches(xs, resume_text)
        overall ==
          [n |-> 6 * exact(required_skills, required_pct) * d(job_keywords)
                     * d(preferred_skills)
                   + 3 * exact(job_keywords, keyword_match_pct) * d(required_skills)
                       * d(preferred_skills)
                   + exact(preferred_skills, preferred_match_pct) * d(required_skills)
                       * d(job_keywords),
           d |-> 10 * d(required_skills) * d(job_keywords) * d(preferred_skills)]
        suggestions ==
          (IF missing_required # <<>> THEN <<"critical">> ELSE <<>>)
            \o (IF required_pct < 800 THEN <<"more_required">> ELSE <<>>)
            \o (IF keyword_match_pct < 600 THEN <<"more_keywords">> ELSE <<>>)
            \o (IF missing_preferred # <<>> /\ preferred_match_pct < 500
                THEN <<"preferred">> ELSE <<>>)
            \o (IF overall.n >= 850 * overall.d THEN <<"excellent">>
                ELSE IF overall.n >= 700 * overall.d THEN <<"good">>
                ELSE <<"needs_improvement">>)
    IN [overall_score |-> Rounded(overall.n, overall.d),
        keyword_match |-> keyword_match_pct,
        required_skills_match |-> required_pct,
        preferred_skills_match |-> preferred_match_pct,
        missing_critical |-> FirstN(missing_required, 10),
        missing_preferred |-> FirstN(missing_preferred, 10),
        suggestions |-> suggestions]

SeqsUpTo(S, n) == UNION {[1..m -> S] : m \in 0..n}

\* One call of calculate_ats_score.
run_ats ==
  /\ run.out.end = "none"
  /\ run' = [run EXCEPT
               !.out = [end |-> "returned",
                        score |-> calculate_ats_score(run.inputs.bullet_points,
                                                      run.inputs.job_keywords,
                                                      run.inputs.required_skills,
                                                      run.inputs.preferred_skills)]]
  /\ UNCHANGED <<row, lock, tasks, views, usage, marked, pending_passes>>

InitAts ==
  LET AtsInputs ==
        LET BulletTexts == {<<>>, <<"J">>, <<"j", "s">>, <<"s", " ">>}
            SkillTexts == {<<"j">>, <<"J", "s">>, <<"s">>}
        IN
        [bullet_points : SeqsUpTo(BulletTexts, MaxBullets),
         job_keywords : SeqsUpTo(SkillTexts, MaxSkills),
         required_skills : SeqsUpTo(SkillTexts, MaxSkills),
         preferred_skills : SeqsUpTo(SkillTexts, 1)]
      NoScore ==
        [overall_score |-> 0, keyword_match |-> 0, required_skills_match |-> 0,
         preferred_skills_match |-> 0, missing_critical |-> <<>>,
         missing_preferred |-> <<>>, suggestions |-> <<>>]
  IN
  /\ row = [status |-> "PENDING", error_message |-> "", completed_at |-> "None",
            debug_log |-> {}, since_created |-> 0, since_updated |-> 0]
  /\ lock = {}
  /\ tasks = [t \in Tasks |-> IdleTask]
  /\ views = [v \in Views |-> IdleView]
  /\ usage = 0
  /\ marked = FALSE
  /\ pending_passes = 0
  /\ run \in [inputs : AtsInputs, out : {[end |-> "none", score |-> NoScore]}]

SpecAts == InitAts /\ [][run_ats]_vars

\* ------------------------------------------------------ validate_bullet_point
\* A bullet is its first characters followed by a run of a plain lower-case
\* letter that brings it to the length under test.
MaxHead == 4

\* The two length limits of the validator.
MaxLength == 220
MinLength == 50

Bullet(input) == input.head \o [i \in 1..input.rest |-> "x"]

action_verbs == {<<"l", "e", "d">>}

IsSpace(c) == c = " "

IsDigit(c) == c = "7"

IsUpper(c) == c = "L"

\* bullet.split(): the positions at which a word starts.
WordStarts(bullet) ==
  {i \in 1..Len(bullet) :
     /\ ~IsSpace(bullet[i])
     /\ (i = 1 \/ IsSpace(bullet[i - 1]))}

\* The least position of a non-empty set of positions.
First(positions) == CHOOSE i \in positions : \A j \in positions : i <= j

\* bullet.split()[0], for a bullet that has a word
FirstWord(bullet) ==
  LET \* The word of the bullet that starts at a position: it runs to the next
      \* whitespace or to the end.
      WordAt(s, start) ==
        SubSeq(s, start,
               First({i \in start..Len(s) : i = Len(s) \/ IsSpace(s[i + 1])}))
  IN WordAt(bullet, First(WordStarts(bullet)))

\* word.rstrip(".,;:")
RECURSIVE RStripPunctuation(_)
RStripPunctuation(word) ==
  IF word # <<>> /\ word[Len(word)] \in {".", ",", ";", ":"}
  THEN RStripPunctuation(SubSeq(word, 1, Len(word) - 1))
  ELSE word

\* The three checks the specification counts as hard issues.
TooLong(bullet) == Len(bullet) > MaxLength

TooShort(bullet) == ~TooLong(bullet) /\ Len(bullet) < MinLength

NotCapitalized(bullet) == bullet = <<>> \/ ~IsUpper(bullet[1])

\* The entries that the action-verb check appends to issues when it fails.
VerbIssues(first_word) ==
  IF first_word \notin action_verbs THEN <<"action_verb">> ELSE <<>>

\* The verdict on a bullet whose first word, lower-cased and without trailing
\* punctuation, is first_word.
Verdict(bullet, first_word) ==
  LET has_number == \E i \in 1..Len(bullet) : IsDigit(bullet[i])
      has_percent ==
        \E i \in 1..(Len(bullet) - 1) : IsDigit(bullet[i]) /\ bullet[i + 1] = "%"
      has_dollar ==
        \E i \in 1..(Len(bullet) - 1) :
           bullet[i] = "$" /\ (IsDigit(bullet[i + 1]) \/ bullet[i + 1] = ",")
      has_metrics == has_number \/ has_percent \/ has_dollar
      issues ==
        (IF TooLong(bullet) THEN <<"too_long">>
         ELSE IF TooShort(bullet) THEN <<"too_short">> ELSE <<>>)
          \o (IF NotCapitalized(bullet) THEN <<"capital">> ELSE <<>>)
          \o VerbIssues(first_word)
      suggestions ==
        (IF TooLong(bullet) THEN <<"aim_shorter">>
         ELSE IF TooShort(bullet) THEN <<"expand">> ELSE <<>>)
          \o (IF NotCapitalized(bullet) THEN <<"capitalize">> ELSE <<>>)
          \o (IF first_word \notin action_verbs THEN <<"start_with_verb">> ELSE <<>>)
          \o (IF ~has_metrics THEN <<"add_metrics">> ELSE <<>>)
          \o (IF Cardinality(WordStarts(bullet)) < 10 THEN <<"add_context">> ELSE <<>>)
  IN [end |-> "returned", valid |-> Len(issues) = 0, issues |-> issues,
      suggestions |-> suggestions, has_metrics |-> has_metrics,
      starts_with_action_verb |-> first_word \in action_verbs,
      character_count |-> Len(bullet)]

\* validate_bullet_point(bullet): the verdict, or the exception that escapes.
validate_bullet_point(bullet) ==
  IF bullet = <<>> THEN Verdict(bullet, <<>>)
  ELSE IF WordStarts(bullet) = {}
  THEN [end |-> "IndexError", valid |-> FALSE, issues |-> <<>>, suggestions |-> <<>>,
        has_metrics |-> FALSE, starts_with_action_verb |-> FALSE, character_count |-> 0]
  ELSE Verdict(bullet, RStripPunctuation(Lower(FirstWord(bullet))))

\* One call of validate_bullet_point.
run_validate ==
  /\ run.out.end = "none"
  /\ run' = [run EXCEPT !.out = validate_bullet_point(Bullet(run.inputs))]
  /\ UNCHANGED <<row, lock, tasks, views, usage, marked, pending_passes>>

InitValidate ==
  LET BulletInputs ==
        LET Chars == {"L", "l", "e", "d", " ", "7", "."}
            Heads == UNION {[1..n -> Chars] : n \in 0..MaxHead}
            \* The filler lengths that put the bullet just under, at and just over each
            \* limit.
            RestLens ==
              {0} \cup {MinLength - MaxHead - 1, MinLength - MaxHead, MinLength - MaxHead + 1}
                  \cup {MaxLength - MaxHead - 1, MaxLength - MaxHead, MaxLength - MaxHead + 1}
        IN [head : Heads, rest : RestLens]
      NoVerdict ==
        [end |-> "none", valid |-> FALSE, issues |-> <<>>, suggestions |-> <<>>,
         has_metrics |-> FALSE, starts_with_action_verb |-> FALSE, character_count |-> 0]
  IN
  /\ row = [status |-> "PENDING", error_message |-> "", completed_at |-> "None",
            debug_log |-> {}, since_created |-> 0, since_updated |-> 0]
  /\ lock = {}
  /\ tasks = [t \in Tasks |-> IdleTask]
  /\ views = [v \in Views |-> IdleView]
  /\ usage = 0
  /\ marked = FALSE
  /\ pending_passes = 0
  /\ run \in [inputs : BulletInputs, out : {NoVerdict}]

SpecValidate == InitValidate /\ [][run_validate]_vars

\* --------------------------------------------------------- _match_experiences
MaxExperiences == 3

\* {text.lower() for text in texts}
LowerSet(texts) == {Lower(texts[i]) : i \in 1..Len(texts)}

\* The score of one experience against the lower-cased requirement skills and
\* keywords.
ExperienceScore(exp, required_skills, requirement_keywords) ==
  LET exp_skills == LowerSet(exp.skills)
      hit(achievement) ==
        \E keyword \in requirement_keywords :
           keyword # <<>> /\ Contains(keyword, Lower(achievement))
      hits == Cardinality({a \in 1..Len(exp.achievements) : hit(exp.achievements[a])})
  IN Cardinality(required_skills \cap exp_skills) * 10
       + hits * 4
       + (IF exp.current THEN 3 ELSE 0)
       + (IF exp.type = "work" THEN 2 ELSE 0)

\* In a sort that reverses the order of equal scores, an entry already placed
\* stays ahead of a later item only with a strictly higher score.
StaysAhead_strict(placed, item) == placed.score > item.score

\* In the descending stable sort an entry already placed stays ahead of a later
\* item of the list unless that item has a strictly higher score.
StaysAhead(placed, item) == placed.score >= item.score

RECURSIVE InsertRanked(_, _)
InsertRanked(item, sorted) ==
  IF sorted = <<>> THEN <<item>>
  ELSE IF StaysAhead(Head(sorted), item)
       THEN <<Head(sorted)>> \o InsertRanked(item, Tail(sorted))
       ELSE <<item>> \o sorted

\* scored.sort(key=lambda item: item[0], reverse=True)
RECURSIVE SortRanked(_)
SortRanked(scored) ==
  IF scored = <<>> THEN <<>>
  ELSE InsertRanked(scored[Len(scored)], SortRanked(SubSeq(scored, 1, Len(scored) - 1)))

\* items[:limit]
Slice(items, limit) ==
  IF limit >= 0 THEN FirstN(items, limit)
  ELSE SubSeq(items, 1, IF Len(items) + limit < 0 THEN 0 ELSE Len(items) + limit)

\* _trim_experience: only the allow-listed keys are kept.
trim_experience(experience) ==
  [type |-> experience.type, current |-> experience.current,
   skills |-> experience.skills, achievements |-> experience.achievements]

\* _match_experiences(requirements, experience_graph, limit): the scored
\* entries kept after the sort and the cut, and the trimmed experiences returned.
match_experiences(requirements, experiences, limit) ==
  LET required_skills == LowerSet(requirements.skills)
      requirement_keywords == LowerSet(requirements.keywords)
      scored == [i \in 1..Len(experiences) |->
                   [score |-> ExperienceScore(experiences[i], required_skills,
                                              requirement_keywords),
                    exp |-> experiences[i]]]
      kept == Slice(SortRanked(scored), limit)
  IN [end |-> "returned", ranked |-> kept,
      top |-> [i \in 1..Len(kept) |-> trim_experience(kept[i].exp)]]

\* One call of _match_experiences.
run_match ==
  /\ run.out.end = "none"
  /\ run' = [run EXCEPT !.out = match_experiences(run.inputs.requirements,
                                                  run.inputs.experiences,
                                                  run.inputs.limit)]
  /\ UNCHANGED <<row, lock, tasks, views, usage, marked, pending_passes>>

InitMatch ==
  LET MatchInputs ==
        LET \* The experiences of a graph differ in skills, achievements, currency and
            \* type; id is the node's position in the list.
            ExperienceShapes ==
              [type : {"work", "project"}, current : BOOLEAN,
               skills : {<<>>, <<<<"J">>>>}, achievements : {<<>>, <<<<"J", "s">>>>}]
            ExperienceLists ==
              UNION {{[i \in 1..n |-> [id |-> i, type |-> shapes[i].type,
                                       current |-> shapes[i].current, skills |-> shapes[i].skills,
                                       achievements |-> shapes[i].achievements]] :
                        shapes \in [1..n -> ExperienceShapes]} : n \in 0..MaxExperiences}
        IN
        [requirements : [skills : {<<>>, <<<<"j">>>>},
                         keywords : {<<>>, <<<<"s">>>>, <<<<>>>>}],
         experiences : ExperienceLists,
         limit : (0 - 1)..MaxExperiences]
  IN
  /\ row = [status |-> "PENDING", error_message |-> "", completed_at |-> "None",
            debug_log |-> {}, since_created |-> 0, since_updated |-> 0]
  /\ lock = {}
  /\ tasks = [t \in Tasks |-> IdleTask]
  /\ views = [v \in Views |-> IdleView]
  /\ usage = 0
  /\ marked = FALSE
  /\ pending_passes = 0
  /\ run \in [inputs : MatchInputs,
              out : {[end |-> "none", ranked |-> <<>>, top |-> <<>>]}]

SpecMatch == InitMatch /\ [][run_match]_vars

\* -------------------------------------------------------------- _build_prompt
\* The prompt is the sequence of its blocks, in the order of the template; a
\* block is its heading and what it carries.
MaxEmphasis == 1

Block(kind, body) == [kind |-> kind, body |-> body]

\* The lines of ats_emphasis: one per non-empty category, in the order of the
\* code, the skills and verbs cut to their first entries.
AtsEmphasis(requirements) ==
  (IF requirements.required_skills # <<>>
   THEN <<Block("required_skills", FirstN(requirements.required_skills, 15))>> ELSE <<>>)
    \o (IF requirements.certifications # <<>>
        THEN <<Block("certifications", requirements.certifications)>> ELSE <<>>)
    \o (IF requirements.years_experience # <<>>
        THEN <<Block("years_experience", requirements.years_experience)>> ELSE <<>>)
    \o (IF requirements.preferred_skills # <<>>
        THEN <<Block("preferred_skills", FirstN(requirements.preferred_skills, 10))>>
        ELSE <<>>)
    \o (IF requirements.action_verbs # <<>>
        THEN <<Block("action_verbs", FirstN(requirements.action_verbs, 10))>> ELSE <<>>)

\* _build_prompt(job_description, requirements, experiences, parameters,
\* source_url): the blocks of the prompt, or the exception that escapes.
build_prompt(requirements, section_instructions, source_url) ==
  IF section_instructions.t # "str" /\ section_instructions # Missing
  THEN [end |-> "AttributeError", prompt |-> <<>>]
  ELSE
    LET ats_emphasis == AtsEmphasis(requirements)
        stripped == IF section_instructions = Missing THEN <<>>
                    ELSE Strip(section_instructions.v)
    IN [end |-> "returned",
        prompt |->
          <<Block("ROLE", <<>>),
            Block("JOB SOURCE URL", IF source_url # <<>> THEN source_url ELSE <<"N/A">>)>>
            \o (IF source_url # <<>> THEN <<Block("web_search_note", source_url)>> ELSE <<>>)
            \o <<Block("JOB DESCRIPTION", <<>>),
                 Block("DERIVED REQUIREMENTS (JSON)", requirements)>>
            \o (IF ats_emphasis # <<>> THEN <<Block("ats_emphasis", ats_emphasis)>>
                ELSE <<>>)
            \o <<Block("CANDIDATE EXPERIENCE GRAPH", <<>>),
                 Block("TAILORING PARAMETERS (JSON)", <<>>),
                 Block("CRITICAL ATS OPTIMIZATION RULES", <<>>),
                 Block("RECRUITER APPEAL RULES", <<>>),
                 Block("BULLET POINT FORMULA", <<>>)>>
            \o (IF stripped # <<>>
                THEN <<Block("CUSTOM SECTION INSTRUCTIONS FROM USER", stripped)>>
                ELSE <<>>)
            \o <<Block("INSTRUCTIONS", <<>>),
                 Block("OUTPUT FORMAT (JSON)", <<>>),
                 Block("Return ONLY valid JSON", <<>>)>>]

\* The positions of the blocks of a kind in a prompt.
Positions(prompt, kind) == {i \in 1..Len(prompt) : prompt[i].kind = kind}

\* One call of _build_prompt.
run_prompt ==
  /\ run.out.end = "none"
  /\ run' = [run EXCEPT !.out = build_prompt(run.inputs.requirements,
                                             run.inputs.section_instructions,
                                             run.inputs.source_url)]
  /\ UNCHANGED <<row, lock, tasks, views, usage, marked, pending_passes>>

InitPrompt ==
  LET PromptInputs ==
        LET EmphasisLists == SeqsUpTo({<<"j">>}, MaxEmphasis)
        IN
        [requirements : [required_skills : EmphasisLists, certifications : EmphasisLists,
                         years_experience : EmphasisLists, preferred_skills : EmphasisLists,
                         action_verbs : EmphasisLists],
         section_instructions : {Missing, NoneV, StrV(<<>>), StrV(<<" ">>), StrV(<<" ", "a">>)},
         source_url : {<<>>, <<"u">>}]
  IN
  /\ row = [status |-> "PENDING", error_message |-> "", completed_at |-> "None",
            debug_log |-> {}, since_created |-> 0, since_updated |-> 0]
  /\ lock = {}
  /\ tasks = [t \in Tasks |-> IdleTask]
  /\ views = [v \in Views |-> IdleView]
  /\ usage = 0
  /\ marked = FALSE
  /\ pending_passes = 0
  /\ run \in [inputs : PromptInputs, out : {[end |-> "none", prompt |-> <<>>]}]

SpecPrompt == InitPrompt /\ [][run_prompt]_vars

\* ------------------------------------------------------ payload normalization
\* The parsed payload is a JSON object; its values are typed as above, and a
\* section is a JSON object or another JSON value.
MaxPayloadSections == 2

\* x or []
Truthy(x) ==
  CASE x.t \in {"None", "missing"} -> FALSE
    [] x.t \in {"str", "list"} -> x.v # <<>>
    [] x.t = "int" -> x.v # 0
    [] OTHER -> TRUE

\* [str(item) for item in x]: a list gives its items and a string its
\* characters.
StrEach(x) ==
  IF x.t = "list" THEN [i \in 1..Len(x.v) |-> py_str(x.v[i])]
  ELSE [i \in 1..Len(x.v) |-> <<x.v[i]>>]

\* payload.get(key) kept when it is a list, and [] otherwise.
ListOrEmpty(x) == IF x.t = "list" THEN x ELSE ListV(<<>>)

\* One entry of the sections of the result, or the exception raised: section.get
\* on a value that is no object raises AttributeError, and the loop over a
\* bullets value that cannot be iterated raises TypeError.
SectionOf(section) ==
  IF section.t # "dict"
  THEN [error |-> "AttributeError", name |-> <<>>, bullets |-> <<>>]
  ELSE IF section.v.bullets.t \notin {"missing", "list", "str"}
  THEN [error |-> "TypeError", name |-> <<>>, bullets |-> <<>>]
  ELSE [error |-> "",
        name |-> IF section.v.name.t = "missing" THEN <<"H">> ELSE py_str(section.v.name),
        bullets |-> IF section.v.bullets.t = "missing" THEN <<>>
                    ELSE StrEach(section.v.bullets)]

\* The fields of the TailoringResult built from the payload, or the exception
\* that escapes.
normalize_payload(payload) ==
  LET sections == IF Truthy(payload.sections) THEN ListOrEmpty(payload.sections).v
                  ELSE <<>>
      bullets == ListOrEmpty(payload.bullets).v
      suggestions == ListOrEmpty(payload.suggestions).v
      built == [i \in 1..Len(sections) |-> SectionOf(sections[i])]
      failed == {i \in 1..Len(sections) : built[i].error # ""}
  IN IF failed # {}
     THEN [end |-> built[First(failed)].error, sections |-> <<>>, bullets |-> <<>>,
           suggestions |-> <<>>]
     ELSE [end |-> "returned",
           sections |-> [i \in 1..Len(built) |->
                           [name |-> built[i].name, bullets |-> built[i].bullets]],
           bullets |-> [i \in 1..Len(bullets) |-> py_str(bullets[i])],
           suggestions |-> [i \in 1..Len(suggestions) |-> py_str(suggestions[i])]]

\* One normalization of a parsed payload.
run_payload ==
  /\ run.out.end = "none"
  /\ run' = [run EXCEPT !.out = normalize_payload(run.inputs)]
  /\ UNCHANGED <<row, lock, tasks, views, usage, marked, pending_passes>>

InitPayload ==
  LET PayloadInputs ==
        LET DictV(fields) == [t |-> "dict", v |-> fields]
            PayloadSections ==
              {StrV(<<"j">>)}
                \cup {DictV([name |-> n, bullets |-> b]) :
                        n \in {Missing, NoneV, StrV(<<"j">>)},
                        b \in {Missing, NoneV, IntV(7), StrV(<<"j", "s">>), ListV(<<>>),
                               ListV(<<StrV(<<"j">>)>>), ListV(<<IntV(7)>>)}}
        IN
        [sections : {Missing, NoneV, IntV(7), StrV(<<"j">>)}
                      \cup {ListV(items) : items \in SeqsUpTo(PayloadSections, MaxPayloadSections)},
         bullets : {Missing, NoneV, IntV(7), StrV(<<"j", "s">>), ListV(<<StrV(<<"j">>)>>)},
         suggestions : {Missing, StrV(<<"j">>), ListV(<<IntV(7)>>)}]
  IN
  /\ row = [status |-> "PROCESSING", error_message |-> "", completed_at |-> "None",
            debug_log |-> {}, since_created |-> 0, since_updated |-> 0]
  /\ lock = {}
  /\ tasks = [t \in Tasks |-> IdleTask]
  /\ views = [v \in Views |-> IdleView]
  /\ usage = 0
  /\ marked = FALSE
  /\ pending_passes = 0
  /\ run \in [inputs : PayloadInputs,
              out : {[end |-> "none", sections |-> <<>>, bullets |-> <<>>,
                      suggestions |-> <<>>]}]

SpecPayload == InitPayload /\ [][run_payload]_vars

\* -------------------------------------------------- _extract_job_requirements
\* A job description is its lines, and a line the words it is made of; the
\* list-typed categories of the result are modelled.
MaxLines == 3

\* word in line.lower()
InLine(word, line) == \E i \in 1..Len(line) : line[i] = word

\* line.lstrip("-*. "): the leading bullet marks are dropped.
RECURSIVE LStripMarks(_)
LStripMarks(line) ==
  IF line # <<>> /\ Head(line) = "-" THEN LStripMarks(Tail(line)) ELSE line

\* The section a header line opens, or "none" for a line that is no header;
\* "flags" is the header that only marks the section as preferred.
HeaderOf(line) ==
  IF InLine("duties", line) THEN "responsibilities"
  ELSE IF InLine("requirements", line) THEN "qualifications"
  ELSE IF InLine("skills", line) THEN "skills"
  ELSE IF InLine("bonus", line) THEN "flags"
  ELSE "none"

\* The line loop: the list-typed categories after the lines from index i on,
\* given the bucket and what was collected so far.
RECURSIVE ScanLines(_, _, _, _)
ScanLines(lines, i, current_bucket, lists) ==
  IF i > Len(lines) THEN lists
  ELSE LET line == lines[i]
           header == HeaderOf(line)
       IN IF line = <<>> THEN ScanLines(lines, i + 1, current_bucket, lists)
          ELSE IF header = "flags" THEN ScanLines(lines, i + 1, current_bucket, lists)
          ELSE IF header # "none" THEN ScanLines(lines, i + 1, header, lists)
          ELSE IF current_bucket = "skills"
               THEN ScanLines(lines, i + 1, current_bucket, lists)
          ELSE IF current_bucket = "qualifications"
               THEN ScanLines(lines, i + 1, current_bucket,
                              [lists EXCEPT !.qualifications = Append(@, LStripMarks(line))])
          ELSE ScanLines(lines, i + 1, current_bucket,
                         [lists EXCEPT !.responsibilities = Append(@, LStripMarks(line))])

education_keywords == <<"bachelor", "master">>

\* The education entries as appended: for each keyword of the list in turn, the
\* first line that has it.
RECURSIVE EducationFound(_, _)
EducationFound(lines, k) ==
  IF k > Len(education_keywords) THEN <<>>
  ELSE LET has == {i \in 1..Len(lines) : InLine(education_keywords[k], lines[i])} IN
       (IF has = {} THEN <<>> ELSE <<LStripMarks(lines[First(has)])>>)
         \o EducationFound(lines, k + 1)

\* list(set(entries)): the distinct entries, in an order the set decides.
ListOfSet(entries) ==
  LET distinct == {entries[i] : i \in 1..Len(entries)} IN
  {order \in [1..Cardinality(distinct) -> distinct] :
     \A i, j \in 1..Cardinality(distinct) : i # j => order[i] # order[j]}

\* _extract_job_requirements(job_description): the results it can return.
extract_job_requirements(job_description) ==
  LET lists == ScanLines(job_description, 1, "responsibilities",
                         [qualifications |-> <<>>, responsibilities |-> <<>>])
  IN {[end |-> "returned", qualifications |-> lists.qualifications,
       responsibilities |-> lists.responsibilities, education |-> education] :
        education \in ListOfSet(EducationFound(job_description, 1))}

\* One call of _extract_job_requirements.
run_extract ==
  /\ run.out.end = "none"
  /\ \E result \in extract_job_requirements(run.inputs) :
       run' = [run EXCEPT !.out = result]
  /\ UNCHANGED <<row, lock, tasks, views, usage, marked, pending_passes>>

InitExtract ==
  LET Descriptions ==
        LET LineTexts ==
              {<<>>, <<"duties">>, <<"requirements">>, <<"skills">>, <<"bonus">>, <<"build">>,
               <<"-", "build">>, <<"bachelor">>, <<"-", "master">>, <<"master", "bachelor">>,
               <<"requirements", "master">>}
        IN SeqsUpTo(LineTexts, MaxLines)
  IN
  /\ row = [status |-> "PROCESSING", error_message |-> "", completed_at |-> "None",
            debug_log |-> {}, since_created |-> 0, since_updated |-> 0]
  /\ lock = {}
  /\ tasks = [t \in Tasks |-> IdleTask]
  /\ views = [v \in Views |-> IdleView]
  /\ usage = 0
  /\ marked = FALSE
  /\ pending_passes = 0
  /\ run \in [inputs : Descriptions,
              out : {[end |-> "none", qualifications |-> <<>>,
                      responsibilities |-> <<>>, education |-> <<>>]}]

SpecExtract == InitExtract /\ [][run_extract]_vars

\* ------------------------------------------------------------------ claims
\* C1: COMPLETED is terminal: once the stored status is COMPLETED, no step of
\* any task execution, retry, rescue or dispatch changes it.
C1_CompletedIsTerminal ==
  [][row.status = "COMPLETED" => row'.status = "COMPLETED"]_vars

\* C2: FAILED is terminal: once the stored status is FAILED, no later step
\* changes it to PROCESSING or COMPLETED.
C2_FailedIsTerminal ==
  [][row.status = "FAILED" => row'.status \notin {"PROCESSING", "COMPLETED"}]_vars

\* C3: with invocations of the entry point alone (no rescue or dispatch write),
\* the status is set to PROCESSING exactly once: the only step that sets it
\* replaces PENDING, and every other invocation is a no-op.
C3_ProcessingSetOnce ==
  [][(~marked' /\ row.status # "PROCESSING" /\ row'.status = "PROCESSING")
       => row.status = "PENDING"]_vars

\* C4: however many dispatchers run the task on the session, at most one of
\* them takes it from PENDING to PROCESSING.
C4_OnePendingPass == pending_passes <= 1

\* C4 witness: one dispatcher is in the pipeline body while another, holding the
\* row lock, has read PROCESSING and is about to return.
C4_Witness ==
  \E t \in Tasks, u \in Tasks :
    /\ t # u
    /\ tasks[t].pc = "body"
    /\ tasks[u].pc = "locked"
    /\ tasks[u].seen = "PROCESSING"
    /\ pending_passes = 1

\* C5: with the task run from the queue, a session is never left in PROCESSING
\* with no execution running or scheduled: the retries of an unexpected error
\* end in FAILED without the rescue path.
C5_ProcessingHasAnExecution ==
  (row.status = "PROCESSING" /\ \A t \in Tasks : tasks[t].mode \in {"none", "queue"})
    => \E t \in Tasks : tasks[t].pc \notin {"idle", "done"}

C7_PipelineErrorFailsAtOnce ==
  [][\A t \in Tasks :
       (tasks[t].pc = "perr" /\ tasks'[t].pc # "perr")
         => /\ tasks[t].raised \in PipelineErrorTexts
            /\ row'.status = "FAILED"
            /\ row'.error_message = tasks[t].raised
            /\ Trail \subseteq row'.debug_log
            /\ tasks'[t].pc = "done"
            /\ tasks'[t].outcome = "returned"
            /\ tasks'[t].retries = 0]_vars

\* C7 witness: a PipelineError has been handled: the session is FAILED with the
\* error's text and the invocation has returned.
C7_Witness ==
  /\ row.status = "FAILED"
  /\ row.error_message \in PipelineErrorTexts
  /\ row.debug_log = Trail
  /\ \E t \in Tasks : tasks[t].pc = "done" /\ tasks[t].outcome = "returned"

\* C8: a run of the pipeline body fails on missing input exactly when the merged
\* description and the source URL are both empty (the service being configured);
\* it then ends in a PipelineError with no provider call; with a source URL
\* present the run goes on to the provider call even if the merged description
\* is empty.
C8_FailFastOnlyWithoutInput ==
  run.out # NoOut =>
    LET i == run.inputs
        o == run.out
    IN
    /\ (o.raised \in {MsgNoInput, MsgRequired})
         <=> (i.configured /\ o.merged = "" /\ i.job.source_url = "")
    /\ (o.raised \in {MsgNoInput, MsgRequired}) => (o.end = "pipeline_error" /\ ~o.called)
    /\ (i.configured /\ i.job.source_url # "") => o.called

\* C8 witness: a run with neither description nor URL has failed fast, with the
\* missing-input message and no provider call.
C8_Witness ==
  /\ run.out.end = "pipeline_error"
  /\ run.out.raised = MsgNoInput
  /\ ~run.out.called
  /\ run.inputs.job.raw_description = ""
  /\ run.inputs.job.source_url = ""

\* C9: _rescue_stuck_session acts exactly on a session that is PENDING and older
\* than the pending timeout, or PROCESSING and not updated for longer than the
\* processing timeout, strictly: on such a session it dispatches the task or
\* writes FAILED and returns True; on any other session (at or below the
\* threshold, COMPLETED, FAILED) it changes nothing, dispatches nothing and
\* returns False.
C9_RescueActsIffStale ==
  [][\A v \in Views :
       LET s == views[v].session
           stale_pending == s.status = "PENDING" /\ s.since_created > PendingTimeout
           stale_processing == s.status = "PROCESSING" /\ s.since_updated > ProcessingTimeout
       IN
       /\ (views[v].pc = "loaded" /\ views'[v].pc # "loaded") =>
            /\ ~(stale_pending \/ stale_processing) =>
                 /\ views'[v].pc = "returned"
                 /\ ~views'[v].mutated
                 /\ row' = row
                 /\ tasks' = tasks
            /\ stale_pending =>
                 /\ tasks' # tasks \/ (row'.status = "FAILED" /\ row'.error_message = MsgStartError)
                 /\ views'[v].pc = "inline" \/ (views'[v].pc = "returned" /\ views'[v].mutated)
            /\ stale_processing =>
                 /\ row'.status = "FAILED"
                 /\ row'.error_message = MsgTimeout
                 /\ views'[v].pc = "returned"
                 /\ views'[v].mutated
       /\ (views[v].pc = "inline" /\ views'[v].pc # "inline") =>
            (views'[v].pc = "returned" /\ views'[v].mutated)]_vars

\* C9 witness: rescue has acted on a PROCESSING session older than the
\* processing timeout: FAILED with the timeout message, and True returned.
C9_Witness ==
  \E v \in Views :
    /\ views[v].pc = "returned"
    /\ views[v].branch = "processing"
    /\ views[v].mutated
    /\ row.status = "FAILED"
    /\ row.error_message = MsgTimeout

\* C10: rescue never raises to its caller, whatever fails while a stale PENDING
\* session is submitted again.
C10_RescueNeverRaises == \A v \in Views : ~views[v].raised

\* C10 witness: the inline run started by rescue raised, the dispatch marked the
\* session FAILED and raised, and rescue returned True all the same.
C10_Witness ==
  \E v \in Views :
    /\ views[v].pc = "returned"
    /\ views[v].result = "raised"
    /\ views[v].mutated
    /\ ~views[v].raised
    /\ row.error_message = MsgQueueDown

C12_DispatchResult ==
  [][\A v \in Views :
       /\ (views[v].pc = "loaded" /\ views'[v].enqueue # "none") =>
            /\ views'[v].result = "queued" <=> views'[v].enqueue = "sent"
            /\ views'[v].pc = "inline" <=> views'[v].enqueue = "unavailable"
            /\ views'[v].result # "inline"
            /\ views'[v].enqueue = "sent" =>
                 \E t \in Tasks : /\ tasks[t].pc = "idle"
                                  /\ tasks'[t].pc = "queued"
                                  /\ tasks'[t].mode = "queue"
            /\ views'[v].enqueue = "unavailable" =>
                 \E t \in Tasks : /\ tasks[t].pc = "idle"
                                  /\ tasks'[t].pc = "start"
                                  /\ tasks'[t].mode = "apply"
                                  /\ tasks'[t].caller = v
            /\ views'[v].enqueue = "error" =>
                 (tasks' = tasks /\ views'[v].result = "raised")
       /\ (views[v].pc = "inline" /\ views'[v].pc # "inline") =>
            /\ views[v].enqueue = "unavailable"
            /\ \E t \in Tasks :
                 /\ tasks[t].caller = v
                 /\ tasks[t].pc = "done"
                 /\ views'[v].result = "inline" <=> tasks[t].outcome = "returned"
                 /\ views'[v].result = "raised" <=> tasks[t].outcome = "raised"
       /\ (views[v].pc = "idle" /\ views'[v].pc = "loaded") =>
            /\ views'[v].thread \in {"none", "error"} => tasks' = tasks
            /\ \A t \in Tasks :
                 tasks'[t] # tasks[t] =>
                   /\ tasks'[t].mode = "queue" <=> views'[v].thread = "sent"
                   /\ tasks'[t].mode = "direct" <=> views'[v].thread = "unavailable"
                   /\ tasks'[t].mode = "queue" \/ tasks'[t].mode = "direct"
       /\ (views'[v].result = "inline" /\ views[v].result # "inline") =>
            views[v].pc = "inline"]_vars

\* C12 witness: delay() failed with a broker error, the task ran in place and
\* returned, and the dispatch returned "inline".
C12_Witness ==
  \E v \in Views :
    /\ views[v].pc = "returned"
    /\ views[v].enqueue = "unavailable"
    /\ views[v].result = "inline"
    /\ \E t \in Tasks : tasks[t].mode = "apply" /\ tasks[t].pc = "done"

\* C13: PENDING is the only initial state: every path that creates a session
\* (the frontend create view, the REST create and restart actions) creates it
\* with status PENDING.
C13_CreatedPending == run.out.end = "created" => row.status = "PENDING"

\* C14: snapshots are immutable once set: when the session carries a non-empty
\* job snapshot and a non-empty experience snapshot, the stored job_snapshot and
\* input_experience_snapshot after a run of the task, whatever its end, are the
\* ones it carried.
C14_SnapshotsKept ==
  (/\ run.out.end # "none"
   /\ run.inputs.job_snapshot # EmptyDict
   /\ run.inputs.input_experience_snapshot # "")
    => /\ run.out.job_snapshot = run.inputs.job_snapshot
       /\ run.out.input_experience_snapshot = run.inputs.input_experience_snapshot

\* C15: _generate_tailored_content fails only with TailoringPipelineError:
\* whether the provider call errors, the response has no text, or the text does
\* not parse as JSON even on the substring from the first "{" to the last "}",
\* no other kind of error escapes.
C15_OnlyPipelineError ==
  run.out.end # "none" =>
    LET raw_payload == StripFences(run.inputs.text)
        start == Find(raw_payload, "{")
        end == RFind(raw_payload, "}")
        unparseable ==
          /\ json_loads(raw_payload) = "invalid"
          /\ json_loads(IF start # 0 /\ end # 0 THEN SubSeq(raw_payload, start, end)
                        ELSE <<>>) = "invalid"
    IN
    /\ (run.inputs.call = "error" \/ raw_payload = <<>> \/ unparseable)
          => run.out.end = "TailoringPipelineError"
    /\ run.out.end \in {"result", "TailoringPipelineError", "AttributeError"}

\* C16: a failure of the provider call escalates to the automatic retry: the
\* step that handles it, while retries remain, does not write FAILED; FAILED is
\* written only once the retry bound is exhausted.
C16_ProviderFailureRetried ==
  [][\A t \in Tasks :
       (/\ tasks[t].pc = "perr"
        /\ tasks[t].raised = MsgProvider
        /\ tasks[t].retries < max_retries
        /\ tasks'[t] # tasks[t])
         => (row'.status = "FAILED" => row.status = "FAILED")]_vars

\* C17: for every input mapping normalize_parameters returns without raising,
\* and the result has bullets_per_section an integer >= 1, sections a non-empty
\* list of non-empty strings, tone a non-empty string, and numeric temperature
\* and max_output_tokens.
C17_NormalizedShape ==
  run.out.end # "none" =>
    /\ run.out.end = "returned"
    /\ LET p == run.out.result IN
       /\ p.bullets_per_section.t = "int"
       /\ p.bullets_per_section.v >= 1
       /\ p.sections.t = "list"
       /\ p.sections.v # <<>>
       /\ \A k \in 1..Len(p.sections.v) :
            p.sections.v[k].t = "str" /\ p.sections.v[k].v # <<>>
       /\ p.tone.t = "str"
       /\ p.tone.v # <<>>
       /\ p.temperature.t \in {"int", "float", "inf", "nan"}
       /\ p.max_output_tokens.t \in {"int", "float", "inf", "nan"}

C20_ValidIffNoHardIssue ==
  run.out.end = "returned" =>
    (run.out.valid <=>
       ~(\/ TooLong(Bullet(run.inputs))
         \/ TooShort(Bullet(run.inputs))
         \/ NotCapitalized(Bullet(run.inputs))))

\* C21: experience ranking is deterministic and stable: the output of
\* _match_experiences is ordered by score descending, two experiences with the
\* same score keep their relative order of the input list, and nothing left
\* out by the limit would have ranked before an experience that was kept.
C21_RankingStable ==
  run.out.end = "returned" =>
    LET ranked == run.out.ranked
        required_skills == LowerSet(run.inputs.requirements.skills)
        requirement_keywords == LowerSet(run.inputs.requirements.keywords)
        score(exp) == ExperienceScore(exp, required_skills, requirement_keywords)
        kept == {ranked[i].exp.id : i \in 1..Len(ranked)}
    IN /\ \A i \in 1..Len(ranked) :
            /\ ranked[i].score = score(ranked[i].exp)
            /\ run.inputs.experiences[ranked[i].exp.id] = ranked[i].exp
            /\ run.out.top[i] = trim_experience(ranked[i].exp)
       /\ \A i, j \in 1..Len(ranked) :
            i < j => \/ ranked[i].score > ranked[j].score
                     \/ /\ ranked[i].score = ranked[j].score
                        /\ ranked[i].exp.id < ranked[j].exp.id
       /\ \A i \in 1..Len(ranked) :
            \A k \in (1..Len(run.inputs.experiences)) \ kept :
               \/ score(run.inputs.experiences[k]) < ranked[i].score
               \/ /\ score(run.inputs.experiences[k]) = ranked[i].score
                  /\ k > ranked[i].exp.id

\* C21 witness: of three experiences the first two tie below the third, and
\* with limit 2 the third is returned first and the first of the tied pair
\* second.
C21_Witness ==
  /\ run.out.end = "returned"
  /\ Len(run.inputs.experiences) = 3
  /\ run.inputs.limit = 2
  /\ Len(run.out.ranked) = 2
  /\ run.out.ranked[1].exp.id = 3
  /\ run.out.ranked[2].exp.id = 1
  /\ run.out.ranked[2].score = 5
  /\ run.out.ranked[1].score = 19

\* C22: in the prompt of _build_prompt, whenever one of required_skills,
\* certifications, years_experience, preferred_skills or action_verbs is
\* non-empty, the emphasis block is there and stands before the serialized
\* requirements block.
C22_EmphasisBeforeRequirements ==
  (/\ run.out.end = "returned"
   /\ \E k \in DOMAIN run.inputs.requirements : run.inputs.requirements[k] # <<>>)
    => /\ Positions(run.out.prompt, "ats_emphasis") # {}
       /\ \A e \in Positions(run.out.prompt, "ats_emphasis") :
            \A r \in Positions(run.out.prompt, "DERIVED REQUIREMENTS (JSON)") : e < r

\* C23: in the prompt of _build_prompt, a non-empty section_instructions is
\* the last directive block: neither the INSTRUCTIONS list nor the OUTPUT
\* FORMAT schema follows it.
C23_CustomInstructionsLast ==
  (/\ run.out.end = "returned"
   /\ run.inputs.section_instructions # Missing
   /\ Strip(run.inputs.section_instructions.v) # <<>>)
    => /\ Positions(run.out.prompt, "CUSTOM SECTION INSTRUCTIONS FROM USER") # {}
       /\ \A c \in Positions(run.out.prompt, "CUSTOM SECTION INSTRUCTIONS FROM USER") :
            \A d \in Positions(run.out.prompt, "INSTRUCTIONS")
                       \cup Positions(run.out.prompt, "OUTPUT FORMAT (JSON)") : d < c

\* C24: the row lock covers only the status check-and-set: an invocation
\* starts its pipeline body (the scrape and the LLM call) only by the step that
\* commits PROCESSING with error_message cleared and completed_at reset, and
\* whenever its body or one of its handlers is under way it holds no lock on
\* the row.
C24_LockOnlyOverCheckAndSet ==
  /\ [](\A t \in Tasks : tasks[t].pc \in {"body", "saved", "perr", "uerr"} => t \notin lock)
  /\ [][\A t \in Tasks :
          (tasks[t].pc # "body" /\ tasks'[t].pc = "body")
            => /\ tasks[t].pc = "locked"
               /\ t \in lock
               /\ t \notin lock'
               /\ row'.status = "PROCESSING"
               /\ row'.error_message = ""
               /\ row'.completed_at = "None"]_vars

\* C24 witness: while the body of an invocation is under way, a rescue wrote
\* the timeout failure to the row, so it was not blocked.
C24_Witness ==
  \E t \in Tasks :
    /\ tasks[t].pc = "body"
    /\ lock = {}
    /\ row.status = "FAILED"
    /\ row.error_message = MsgTimeout

\* C25: payload normalization never fails on a parsed JSON object and yields
\* well-typed fields: a non-list sections, bullets or suggestions value becomes
\* an empty list, and within each section a missing name becomes "Highlights"
\* and a non-list bullets value becomes an empty list, neither raising nor
\* being split into characters.
C25_PayloadWellTyped ==
  run.out.end # "none" =>
    /\ run.out.end = "returned"
    /\ run.inputs.sections.t # "list" => run.out.sections = <<>>
    /\ run.inputs.bullets.t # "list" => run.out.bullets = <<>>
    /\ run.inputs.suggestions.t # "list" => run.out.suggestions = <<>>
    /\ run.inputs.sections.t = "list" =>
         /\ Len(run.out.sections) = Len(run.inputs.sections.v)
         /\ \A i \in 1..Len(run.out.sections) :
              LET section == run.inputs.sections.v[i].v IN
              /\ section.name.t = "missing" => run.out.sections[i].name = <<"H">>
              /\ section.bullets.t # "list" => run.out.sections[i].bullets = <<>>

\* C26: in the result of _extract_job_requirements the list-typed categories
\* keep encounter order: qualifications and responsibilities list their lines
\* in the order of the description, education lists its entries in the order
\* of their first matching lines, and education has no duplicate values.
C26_ListsKeepEncounterOrder ==
  run.out.end = "returned" =>
    LET lines == run.inputs
        InOrderOfLines(list) ==
          \E at \in [1..Len(list) -> 1..Len(lines)] :
             /\ \A i \in 1..Len(list) : LStripMarks(lines[at[i]]) = list[i]
             /\ \A i, j \in 1..Len(list) : i < j => at[i] < at[j]
        FirstLine(entry) == First({n \in 1..Len(lines) : LStripMarks(lines[n]) = entry})
    IN /\ InOrderOfLines(run.out.qualifications)
       /\ InOrderOfLines(run.out.responsibilities)
       /\ \A i, j \in 1..Len(run.out.education) :
            i < j => /\ run.out.education[i] # run.out.education[j]
                     /\ FirstLine(run.out.education[i]) < FirstLine(run.out.education[j])

\* C27: at most one execution of the pipeline body (the scrape, the LLM call
\* and the result save, after the locked check-and-set) is under way for the
\* session at any time.
C27_OneBodyInFlight ==
  Cardinality({t \in Tasks : tasks[t].pc \in {"body", "saved"}}) <= 1

\* C28: usage is recorded at most once for the session, over every
\* interleaving of invocations, retries and rescue calls.
C28_UsageRecordedOnce == usage <= 1

\* C29: a session whose stored status is COMPLETED has an empty error_message.
C29_CompletedHasNoError == row.status = "COMPLETED" => row.error_message = ""

\* C30: a session whose stored status is COMPLETED has completed_at set, and a
\* session whose stored status is PROCESSING has completed_at unset.
C30_CompletedAtFollowsStatus ==
  /\ row.status = "COMPLETED" => row.completed_at = "set"
  /\ row.status = "PROCESSING" => row.completed_at = "None"

====
